---- MODULE Spec2Model ----
\* Analytics calculation layer of the F1 dashboard (src/app.py): the value
\* normalisation helpers and the analytics functions, modelled as operators
\* over Python values, and called by one action each on a drawn race list.
EXTENDS Integers, Sequences, FiniteSets, TLC

VARIABLES race_results, trends, points_per_race, consistency, correlation,
          dnf_rate, form, status_check, notices, fetch

vars == <<race_results, trends, points_per_race, consistency, correlation,
          dnf_rate, form, status_check, notices, fetch>>

\* ------------------------------------------------------------------ bounds

\* Longest race list drawn as input.
MaxRaces == 3

\* Largest min_races argument drawn for a call.
MaxMinRaces == 2

\* Largest n_races argument drawn for a call on a short race list.
MaxNRaces == 3

\* Longest race list drawn from the races of every status.
MaxCauseRaces == 2

\* Most notices the page holds before no further notice is followed.
MaxNotices == 2

\* Largest max_retries argument drawn for a call of fetch_with_retry.
MaxRetriesDrawn == 4

\* ------------------------------------------------------------ Python values
\* A Python value is a tagged record: None, a str (a sequence of characters),
\* an int, or a float.  Floats the analytics read or sum are decimal numbers
\* of at most three fractional digits and are held exactly, in thousandths.

None == [t |-> "None"]

PyStr(chars) == [t |-> "str", s |-> chars]

PyInt(n) == [t |-> "int", v |-> n]

PyFloat(thousandths) == [t |-> "float", m |-> thousandths]

PyList(items) == [t |-> "list", items |-> items]

\* Python truthiness of a value (`if x`, `not x`).
Truthy(value) ==
    CASE value.t = "None" -> FALSE
      [] value.t = "str" -> value.s # <<>>
      [] value.t = "int" -> value.v # 0
      [] value.t = "float" -> value.m # 0
      [] value.t = "list" -> value.items # <<>>

\* dict.get(key, default): a dict is a function whose domain is its keys.
Get(dict, key, default) == IF key \in DOMAIN dict THEN dict[key] ELSE default

\* A dict built from (key, value) pairs; a pair whose value is Absent gives no key.
Absent == [t |-> "absent"]

Dict(pairs) ==
    LET present == {p \in pairs : p[2] # Absent}
    IN  [k \in {p[1] : p \in present} |-> (CHOOSE p \in present : p[1] = k)[2]]

\* --------------------------------------------------------- numeric literals

Digits == <<"0", "1", "2", "3", "4", "5", "6", "7", "8", "9">>

IsDigit(c) == \E i \in 1..Len(Digits) : Digits[i] = c

DigitValue(c) == (CHOOSE i \in 1..Len(Digits) : Digits[i] = c) - 1

AllDigits(chars) == \A i \in 1..Len(chars) : IsDigit(chars[i])

RECURSIVE DigitsValue(_)
DigitsValue(chars) ==
    IF chars = <<>> THEN 0
    ELSE 10 * DigitsValue(SubSeq(chars, 1, Len(chars) - 1)) + DigitValue(chars[Len(chars)])

HasSign(chars) == Len(chars) > 0 /\ chars[1] \in {"+", "-"}

Unsigned(chars) == IF HasSign(chars) THEN Tail(chars) ELSE chars

Sign(chars) == IF Len(chars) > 0 /\ chars[1] = "-" THEN -1 ELSE 1

\* int(str) succeeds on an optional sign followed by one or more digits
\* (whitespace and underscores are not in the alphabet of the drawn texts).
IsIntLiteral(chars) == Unsigned(chars) # <<>> /\ AllDigits(Unsigned(chars))

IntLiteralValue(chars) == Sign(chars) * DigitsValue(Unsigned(chars))

\* Index of the decimal point of a text, 0 when it has none.
PointAt(chars) ==
    IF \E i \in 1..Len(chars) : chars[i] = "."
    THEN CHOOSE i \in 1..Len(chars) : chars[i] = "." /\ \A j \in 1..(i - 1) : chars[j] # "."
    ELSE 0

WholePart(chars) == IF PointAt(chars) = 0 THEN chars ELSE SubSeq(chars, 1, PointAt(chars) - 1)

FractionPart(chars) ==
    IF PointAt(chars) = 0 THEN <<>> ELSE SubSeq(chars, PointAt(chars) + 1, Len(chars))

\* float(str) succeeds on [sign] digits [. digits] with a digit on at least one
\* side of the point (exponents, inf and nan are not in the drawn alphabet).
IsFloatLiteral(chars) ==
    LET u == Unsigned(chars)
    IN  /\ AllDigits(WholePart(u))
        /\ AllDigits(FractionPart(u))
        /\ Len(WholePart(u)) + Len(FractionPart(u)) > 0
        /\ Len(FractionPart(u)) <= 3

\* The fraction digits padded right to three places.
Pad3(chars) ==
    CASE Len(chars) = 0 -> <<"0", "0", "0">>
      [] Len(chars) = 1 -> chars \o <<"0", "0">>
      [] Len(chars) = 2 -> chars \o <<"0">>
      [] OTHER -> chars

FloatLiteralThousandths(chars) ==
    LET u == Unsigned(chars)
    IN  Sign(chars) * (1000 * DigitsValue(WholePart(u)) + DigitsValue(Pad3(FractionPart(u))))

\* ------------------------------------------------------ value normalisation

R_ == PyStr(<<"R">>)

W_ == PyStr(<<"W">>)

safe_int(value, default) ==
    IF value = R_ \/ value = W_ THEN default
    ELSE IF value.t = "int" THEN value
    ELSE IF value.t = "str" /\ IsIntLiteral(value.s) THEN PyInt(IntLiteralValue(value.s))
    ELSE default

safe_float(value, default) ==
    IF value.t = "float" THEN value
    ELSE IF value.t = "int" THEN PyFloat(1000 * value.v)
    ELSE IF value.t = "str" /\ IsFloatLiteral(value.s)
         THEN PyFloat(FloatLiteralThousandths(value.s))
    ELSE default

\* A real number num/den, kept exactly as the pair it is rounded from.
Ratio(num, den) == [num |-> num, den |-> den]

\* numerator is a float (held in thousandths), denominator a count.
safe_divide(numerator, denominator, default) ==
    IF denominator = 0 THEN default ELSE Ratio(numerator.m, 1000 * denominator)

Accident == <<"A", "c", "c", "i", "d", "e", "n", "t">>
Engine == <<"E", "n", "g", "i", "n", "e">>
Gearbox == <<"G", "e", "a", "r", "b", "o", "x">>
Transmission == <<"T", "r", "a", "n", "s", "m", "i", "s", "s", "i", "o", "n">>
Clutch == <<"C", "l", "u", "t", "c", "h">>
Hydraulics == <<"H", "y", "d", "r", "a", "u", "l", "i", "c", "s">>
Electrical == <<"E", "l", "e", "c", "t", "r", "i", "c", "a", "l">>
Collision == <<"C", "o", "l", "l", "i", "s", "i", "o", "n">>
SpunOff == <<"S", "p", "u", "n", " ", "o", "f", "f">>
Retired == <<"R", "e", "t", "i", "r", "e", "d">>
Mechanical == <<"M", "e", "c", "h", "a", "n", "i", "c", "a", "l">>
Brakes == <<"B", "r", "a", "k", "e", "s">>
Suspension == <<"S", "u", "s", "p", "e", "n", "s", "i", "o", "n">>
FuelPressure == <<"F", "u", "e", "l", " ", "p", "r", "e", "s", "s", "u", "r", "e">>
Overheating == <<"O", "v", "e", "r", "h", "e", "a", "t", "i", "n", "g">>

dnf_statuses ==
    <<Accident, Engine, Gearbox, Transmission, Clutch,
      Hydraulics, Electrical, Collision, SpunOff, Retired,
      Mechanical, Brakes, Suspension, FuelPressure, Overheating>>

\* `x in list` over a list of texts.
InList(chars, list) == \E i \in 1..Len(list) : list[i] = chars

StartsWith(chars, c) == Len(chars) > 0 /\ chars[1] = c

\* is_dnf looking for the '+' anywhere in the status.
is_dnf_plus_anywhere(status) ==
    InList(status.s, dnf_statuses) \/ \E i \in 1..Len(status.s) : status.s[i] = "+"

\* status is a str here (the race lists drawn carry a text or no status key).
is_dnf(status) == InList(status.s, dnf_statuses) \/ StartsWith(status.s, "+")

\* ------------------------------------------------------------- rounding
\* Nearest integer to num * scale / den for num >= 0, a tie going to the even one.
RoundRatio(num, den, scale) ==
    LET q == (num * scale) \div den
        r == (num * scale) % den
    IN  IF 2 * r > den \/ (2 * r = den /\ q % 2 = 1) THEN q + 1 ELSE q

\* round(x, d) of the real x, with scale = 10^d; the result is a float.
Round(x, scale) ==
    PyFloat((1000 \div scale)
            * (IF x.num < 0 THEN 0 - RoundRatio(0 - x.num, x.den, scale)
               ELSE RoundRatio(x.num, x.den, scale)))

\* a/b <= c/d for a, c >= 0 and b, d > 0, by continued fractions (no products,
\* so that nothing leaves the 32-bit range).
RECURSIVE FracLeq(_, _, _, _)
FracLeq(a, b, c, d) ==
    IF a \div b # c \div d THEN a \div b < c \div d
    ELSE IF a % b = 0 THEN TRUE
    ELSE IF c % d = 0 THEN FALSE
    ELSE FracLeq(d, c % d, b, a % b)

\* The largest m in lo..hi with m - 1/2 <= scale * sqrt(num / den), by bisection.
RECURSIVE RootSearch(_, _, _, _, _)
RootSearch(lo, hi, num, den, scale) ==
    IF lo >= hi THEN lo
    ELSE LET mid == (lo + hi + 1) \div 2
         IN  IF FracLeq((2 * mid - 1) * (2 * mid - 1), 4 * scale * scale, num, den)
             THEN RootSearch(mid, hi, num, den, scale)
             ELSE RootSearch(lo, mid - 1, num, den, scale)

\* Nearest integer to scale * sqrt(num / den) for num >= 0, den > 0: what
\* round(sqrt(num / den), d) is in units of 1/scale (a tie goes to the even one).
RoundRoot(num, den, scale) ==
    LET m == RootSearch(0, scale * ((num \div den) + 1), num, den, scale)
        tie == m > 0 /\ FracLeq(num, den, (2 * m - 1) * (2 * m - 1), 4 * scale * scale)
    IN  IF tie /\ m % 2 = 1 THEN m - 1 ELSE m

\* ------------------------------------------------------------- statistics

RECURSIVE Sum(_)
Sum(xs) == IF xs = <<>> THEN 0 ELSE xs[1] + Sum(Tail(xs))

RECURSIVE SumProducts(_, _)
SumProducts(xs, ys) ==
    IF xs = <<>> THEN 0 ELSE xs[1] * ys[1] + SumProducts(Tail(xs), Tail(ys))

\* n^2 times the population covariance of xs and ys.
ScaledCovariance(xs, ys) == Len(xs) * SumProducts(xs, ys) - Sum(xs) * Sum(ys)

\* n^2 times the population variance of xs: np.std(xs) is sqrt of it over n.
ScaledVariance(xs) == ScaledCovariance(xs, xs)

\* ------------------------------------------------------ performance trends

Unknown == PyStr(<<"U", "n", "k", "n", "o", "w", "n">>)

NotCalled == [t |-> "not called"]

\* race.get('Results', []).
ResultsOf(race) == Get(race, "Results", PyList(<<>>))

TrendColumns == <<"race_name", "race_date", "round", "metric_value">>

DataFrame(columns, rows) == [t |-> "DataFrame", columns |-> columns, rows |-> rows]

\* TrendRow giving no value to a position outside 1..20.
TrendRow_hides_out_of_range(race, metric) ==
    LET result == ResultsOf(race).items[1]
        position_int == safe_int(Get(result, "position", R_), None)
    IN  [race_name |-> Get(race, "raceName", Unknown),
         race_date |-> Get(race, "date", PyStr(<<>>)),
         round |-> safe_int(Get(race, "round", PyInt(0)), PyInt(0)),
         metric_value |->
             IF metric = "position"
             THEN IF position_int # None /\ position_int.v \in 1..20
                  THEN position_int ELSE None
             ELSE safe_float(Get(result, "points", PyStr(<<"0">>)), PyFloat(0))]

TrendRow(race, metric) ==
    LET result == ResultsOf(race).items[1]
    IN  [race_name |-> Get(race, "raceName", Unknown),
         race_date |-> Get(race, "date", PyStr(<<>>)),
         round |-> safe_int(Get(race, "round", PyInt(0)), PyInt(0)),
         metric_value |->
             IF metric = "position"
             THEN safe_int(Get(result, "position", R_), None)
             ELSE safe_float(Get(result, "points", PyStr(<<"0">>)), PyFloat(0))]

\* One pass of the loop body: trends_data after `race`.
trends_body(rows, race, metric) ==
    IF Truthy(ResultsOf(race)) THEN Append(rows, TrendRow(race, metric)) ELSE rows

\* trends_data after the loop over the races.
RECURSIVE trends_data(_, _)
trends_data(races, metric) ==
    IF races = <<>> THEN <<>>
    ELSE trends_body(trends_data(SubSeq(races, 1, Len(races) - 1), metric),
                     races[Len(races)], metric)

calculate_analytics_performance_trends(races, metric) ==
    IF races = <<>> THEN DataFrame(TrendColumns, <<>>)
    ELSE LET rows == trends_data(races, metric)
         IN  DataFrame(IF rows = <<>> THEN <<>> ELSE TrendColumns, rows)

\* --------------------------------------------------------- points per race

Finished == PyStr(<<"F", "i", "n", "i", "s", "h", "e", "d">>)

\* points_body with the points of a skipped race still added to the total.
points_body_keeps_dnf_points(acc, race, exclude_dnf) ==
    LET result == ResultsOf(race).items[1]
        status == Get(result, "status", Finished)
        points == safe_float(Get(result, "points", PyStr(<<"0">>)), PyFloat(0))
    IN  IF ~Truthy(ResultsOf(race)) THEN acc
        ELSE IF exclude_dnf /\ is_dnf(status)
             THEN [acc EXCEPT !.total_points = @ + points.m]
        ELSE [total_points |-> acc.total_points + points.m,
              races_counted |-> acc.races_counted + 1]

\* points_body without the skip of DNF races.
points_body_never_skips(acc, race, exclude_dnf) ==
    LET result == ResultsOf(race).items[1]
        points == safe_float(Get(result, "points", PyStr(<<"0">>)), PyFloat(0))
    IN  IF ~Truthy(ResultsOf(race)) THEN acc
        ELSE [total_points |-> acc.total_points + points.m,
              races_counted |-> acc.races_counted + 1]

\* One pass of the loop body: total_points (thousandths) and races_counted
\* after `race`.
points_body(acc, race, exclude_dnf) ==
    LET result == ResultsOf(race).items[1]
        status == Get(result, "status", Finished)
        points == safe_float(Get(result, "points", PyStr(<<"0">>)), PyFloat(0))
    IN  IF ~Truthy(ResultsOf(race)) THEN acc
        ELSE IF exclude_dnf /\ is_dnf(status) THEN acc
        ELSE [total_points |-> acc.total_points + points.m,
              races_counted |-> acc.races_counted + 1]

\* total_points and races_counted after the loop over the races.
RECURSIVE points_loop(_, _)
points_loop(races, exclude_dnf) ==
    IF races = <<>> THEN [total_points |-> 0, races_counted |-> 0]
    ELSE points_body(points_loop(SubSeq(races, 1, Len(races) - 1), exclude_dnf),
                     races[Len(races)], exclude_dnf)

calculate_analytics_points_per_race(races, exclude_dnf) ==
    IF races = <<>>
    THEN [points_per_race |-> PyFloat(0), total_points |-> PyFloat(0), races_counted |-> 0]
    ELSE LET acc == points_loop(races, exclude_dnf)
             points_per_race_ ==
                 safe_divide(PyFloat(acc.total_points), acc.races_counted, Ratio(0, 1))
         IN  [points_per_race |-> Round(points_per_race_, 100),
              total_points |-> Round(Ratio(acc.total_points, 1000), 10),
              races_counted |-> acc.races_counted]

\* -------------------------------------------------------- consistency score

\* One pass of the loop body: the positions list after `race`.
positions_body(positions, race) ==
    LET result == ResultsOf(race).items[1]
        status == Get(result, "status", PyStr(<<>>))
        position == Get(result, "position", R_)
        pos_int == safe_int(position, None)
    IN  IF ~Truthy(ResultsOf(race)) THEN positions
        ELSE IF ~is_dnf(status) /\ position # R_ /\ pos_int # None /\ pos_int.v > 0
             THEN Append(positions, pos_int.v)
        ELSE positions

\* The positions list after the loop over the races.
RECURSIVE completed_positions(_)
completed_positions(races) ==
    IF races = <<>> THEN <<>>
    ELSE positions_body(completed_positions(SubSeq(races, 1, Len(races) - 1)),
                        races[Len(races)])

\* np.mean and np.std of an empty list, and what round() makes of them.
NaN == [t |-> "float", nan |-> TRUE]

\* consistency_score_of without the cap at 0.
consistency_score_uncapped(positions) ==
    IF Len(positions) = 0 THEN PyInt(0)
    ELSE PyFloat(100 * (1000 - RoundRoot(ScaledVariance(positions),
                                         Len(positions) * Len(positions), 100)))

\* round(max(0, 100 - std_dev * 10), 1) for std_dev = sqrt(variance) / n; the
\* maximum with a NaN second argument is its first argument, 0.
consistency_score_of(positions) ==
    LET n == Len(positions)
        variance == ScaledVariance(positions)
    IN  IF n = 0 THEN PyInt(0)
        ELSE IF variance >= 100 * n * n THEN PyInt(0)
        ELSE PyFloat(100 * (1000 - RoundRoot(variance, n * n, 100)))

\* The dict returned once enough races are completed.
consistency_metrics(positions, total_races) ==
    LET completed_races == Len(positions)
    IN  [consistency_score |-> consistency_score_of(positions),
         std_dev |-> IF completed_races = 0 THEN NaN
                     ELSE PyFloat(10 * RoundRoot(ScaledVariance(positions),
                                                 completed_races * completed_races, 100)),
         avg_position |-> IF completed_races = 0 THEN NaN
                          ELSE Round(Ratio(Sum(positions), completed_races), 100),
         completed_races |-> completed_races,
         total_races |-> total_races]

\* The function with `<=` for `<` in the check for enough data.
consistency_score_needs_one_more(races, min_races) ==
    IF races = <<>> THEN None
    ELSE IF Len(completed_positions(races)) <= min_races THEN None
    ELSE consistency_metrics(completed_positions(races), Len(races))

calculate_analytics_consistency_score(races, min_races) ==
    IF races = <<>> THEN None
    ELSE IF Len(completed_positions(races)) < min_races THEN None
    ELSE consistency_metrics(completed_positions(races), Len(races))

\* The st.warning of the function: one notice when there are races but fewer
\* than min_races completed ones.
consistency_warnings(races, min_races) ==
    IF races # <<>> /\ Len(completed_positions(races)) < min_races
    THEN <<"warning: insufficient data">>
    ELSE <<>>

\* ------------------------------------------- qualifying / race correlation

\* np.corrcoef(x, y)[0, 1] held exactly: cov / sqrt(var_x * var_y).
Pearson(cov, var_x, var_y) == [t |-> "pearson", cov |-> cov, var_x |-> var_x, var_y |-> var_y]

safe_correlation(x, y) ==
    IF Len(x) < 2 \/ Len(y) < 2 THEN None
    ELSE IF Len(x) # Len(y) THEN None
    ELSE IF ScaledVariance(x) = 0 \/ ScaledVariance(y) = 0 THEN None
    ELSE Pearson(ScaledCovariance(x, y), ScaledVariance(x), ScaledVariance(y))

\* correlation < bound for the bound num/den with den > 0.
PearsonLess(c, num, den) ==
    IF num < 0
    THEN c.cov < 0 /\ ~FracLeq(c.cov * c.cov, c.var_x * c.var_y, num * num, den * den)
    ELSE c.cov < 0 \/ ~FracLeq(num * num, den * den, c.cov * c.cov, c.var_x * c.var_y)

\* correlation > bound for the bound num/den with num >= 0 and den > 0.
PearsonGreater(c, num, den) ==
    c.cov > 0 /\ ~FracLeq(c.cov * c.cov, c.var_x * c.var_y, num * num, den * den)

\* round(correlation, 3).
RoundPearson(c) ==
    LET magnitude == RoundRoot(c.cov * c.cov, c.var_x * c.var_y, 1000)
    IN  PyFloat(IF c.cov < 0 THEN 0 - magnitude ELSE magnitude)

\* correlation_body leaving out, uncounted, a race whose grid or position is
\* no integer.
correlation_body_drops_unparsed(acc, race) ==
    LET result == ResultsOf(race).items[1]
        grid == Get(result, "grid", None)
        position == Get(result, "position", None)
        status == Get(result, "status", Finished)
        grid_int == safe_int(grid, None)
        position_int == safe_int(position, None)
    IN  IF ~Truthy(ResultsOf(race)) THEN acc
        ELSE IF ~Truthy(grid) \/ ~Truthy(position)
             THEN [acc EXCEPT !.missing_data_count = @ + 1]
        ELSE IF is_dnf(status) THEN acc
        ELSE IF grid_int # None /\ position_int # None
             THEN [acc EXCEPT
                       !.grid_positions = Append(@, grid_int.v),
                       !.finish_positions = Append(@, position_int.v),
                       !.scatter_data =
                           Append(@, [grid |-> grid_int.v,
                                      finish |-> position_int.v,
                                      race_name |-> Get(race, "raceName", Unknown)])]
        ELSE acc

\* correlation_body with every skipped race counted as missing data.
correlation_body_counts_every_skip(acc, race) ==
    LET result == ResultsOf(race).items[1]
        grid == Get(result, "grid", None)
        position == Get(result, "position", None)
        status == Get(result, "status", Finished)
        grid_int == safe_int(grid, None)
        position_int == safe_int(position, None)
    IN  IF ~Truthy(ResultsOf(race)) THEN acc
        ELSE IF ~Truthy(grid) \/ ~Truthy(position) \/ is_dnf(status)
             THEN [acc EXCEPT !.missing_data_count = @ + 1]
        ELSE IF grid_int # None /\ position_int # None
             THEN [acc EXCEPT
                       !.grid_positions = Append(@, grid_int.v),
                       !.finish_positions = Append(@, position_int.v),
                       !.scatter_data =
                           Append(@, [grid |-> grid_int.v,
                                      finish |-> position_int.v,
                                      race_name |-> Get(race, "raceName", Unknown)])]
        ELSE [acc EXCEPT !.missing_data_count = @ + 1]

\* One pass of the loop body: the three lists and the counter after `race`.
correlation_body(acc, race) ==
    LET result == ResultsOf(race).items[1]
        grid == Get(result, "grid", None)
        position == Get(result, "position", None)
        status == Get(result, "status", Finished)
        grid_int == safe_int(grid, None)
        position_int == safe_int(position, None)
    IN  IF ~Truthy(ResultsOf(race)) THEN acc
        ELSE IF ~Truthy(grid) \/ ~Truthy(position)
             THEN [acc EXCEPT !.missing_data_count = @ + 1]
        ELSE IF is_dnf(status) THEN acc
        ELSE IF grid_int # None /\ position_int # None
             THEN [acc EXCEPT
                       !.grid_positions = Append(@, grid_int.v),
                       !.finish_positions = Append(@, position_int.v),
                       !.scatter_data =
                           Append(@, [grid |-> grid_int.v,
                                      finish |-> position_int.v,
                                      race_name |-> Get(race, "raceName", Unknown)])]
        ELSE [acc EXCEPT !.missing_data_count = @ + 1]

\* correlation_loop taking the races from the last to the first.
RECURSIVE correlation_loop_newest_first(_)
correlation_loop_newest_first(races) ==
    IF races = <<>>
    THEN [grid_positions |-> <<>>, finish_positions |-> <<>>,
          scatter_data |-> <<>>, missing_data_count |-> 0]
    ELSE correlation_body(correlation_loop_newest_first(Tail(races)), Head(races))

\* The lists and the counter after the loop over the races.
RECURSIVE correlation_loop(_)
correlation_loop(races) ==
    IF races = <<>>
    THEN [grid_positions |-> <<>>, finish_positions |-> <<>>,
          scatter_data |-> <<>>, missing_data_count |-> 0]
    ELSE correlation_body(correlation_loop(SubSeq(races, 1, Len(races) - 1)),
                          races[Len(races)])

\* classification_of with the upper threshold at 1.
classification_above_one(correlation_) ==
    IF correlation_ = None THEN "insufficient data"
    ELSE IF PearsonLess(correlation_, -3, 10) THEN "strong race performer"
    ELSE IF PearsonGreater(correlation_, 1, 1) THEN "qualifying-dependent performer"
    ELSE "balanced performer"

classification_of(correlation_) ==
    IF correlation_ = None THEN "insufficient data"
    ELSE IF PearsonLess(correlation_, -3, 10) THEN "strong race performer"
    ELSE IF PearsonGreater(correlation_, 7, 10) THEN "qualifying-dependent performer"
    ELSE "balanced performer"

\* The dict returned when fewer than min_races data points were collected.
insufficient_correlation(acc) ==
    [correlation_coefficient |-> None,
     avg_position_change |-> PyFloat(0),
     classification |-> "insufficient data",
     scatter_data |-> acc.scatter_data,
     races_analyzed |-> Len(acc.grid_positions),
     missing_data_count |-> acc.missing_data_count,
     insufficient_data |-> TRUE]

\* computed_correlation flagging a series without variance as insufficient.
correlation_flags_no_variance(acc) ==
    LET n == Len(acc.grid_positions)
        correlation_ == safe_correlation(acc.grid_positions, acc.finish_positions)
        change == Sum(acc.finish_positions) - Sum(acc.grid_positions)
    IN  [correlation_coefficient |->
             IF correlation_ # None THEN RoundPearson(correlation_) ELSE None,
         avg_position_change |->
             IF n > 0 THEN Round(Ratio(change, n), 100) ELSE PyFloat(0),
         classification |-> classification_of(correlation_),
         scatter_data |-> acc.scatter_data,
         races_analyzed |-> n,
         missing_data_count |-> acc.missing_data_count,
         insufficient_data |-> correlation_ = None]

\* The dict returned otherwise.
computed_correlation(acc) ==
    LET n == Len(acc.grid_positions)
        correlation_ == safe_correlation(acc.grid_positions, acc.finish_positions)
        change == Sum(acc.finish_positions) - Sum(acc.grid_positions)
    IN  [correlation_coefficient |->
             IF correlation_ # None THEN RoundPearson(correlation_) ELSE None,
         avg_position_change |->
             IF n > 0 THEN Round(Ratio(change, n), 100) ELSE PyFloat(0),
         classification |-> classification_of(correlation_),
         scatter_data |-> acc.scatter_data,
         races_analyzed |-> n,
         missing_data_count |-> acc.missing_data_count,
         insufficient_data |-> FALSE]

\* The function with `<=` for `<` in the check for enough data.
correlation_needs_one_more(races, min_races) ==
    IF races = <<>> THEN None
    ELSE IF Len(correlation_loop(races).grid_positions) <= min_races
         THEN insufficient_correlation(correlation_loop(races))
    ELSE computed_correlation(correlation_loop(races))

\* The function returning None on too few data points, as the consistency
\* score does.
correlation_absent_when_insufficient(races, min_races) ==
    IF races = <<>> THEN None
    ELSE IF Len(correlation_loop(races).grid_positions) < min_races THEN None
    ELSE computed_correlation(correlation_loop(races))

calculate_analytics_qualifying_race_correlation(races, min_races) ==
    IF races = <<>> THEN None
    ELSE IF Len(correlation_loop(races).grid_positions) < min_races
         THEN insufficient_correlation(correlation_loop(races))
    ELSE computed_correlation(correlation_loop(races))

\* --------------------------------------------------------- form indicator

\* The slice that takes the whole list whatever n_races is.
whole_list(races, n_races) == races

\* race_results[:n_races]: the first n_races items, and all but the last
\* -n_races for a negative n_races.
Slice(races, n_races) ==
    IF n_races >= 0
    THEN SubSeq(races, 1, IF n_races < Len(races) THEN n_races ELSE Len(races))
    ELSE SubSeq(races, 1, IF Len(races) + n_races > 0 THEN Len(races) + n_races ELSE 0)

\* form_body without the check of the status.
form_body_keeps_dnf(acc, race) ==
    LET result == ResultsOf(race).items[1]
        position == Get(result, "position", None)
        points == safe_float(Get(result, "points", PyStr(<<"0">>)), PyFloat(0))
        position_int == safe_int(position, None)
    IN  IF ~Truthy(ResultsOf(race)) THEN acc
        ELSE IF Truthy(position) /\ position_int # None
             THEN [positions |-> Append(acc.positions, position_int.v),
                   total_points |-> acc.total_points + points.m,
                   races_analyzed |-> acc.races_analyzed + 1]
        ELSE acc

\* form_body adding the points of every race that has a result.
form_body_adds_every_points(acc, race) ==
    LET result == ResultsOf(race).items[1]
        position == Get(result, "position", None)
        points == safe_float(Get(result, "points", PyStr(<<"0">>)), PyFloat(0))
        status == Get(result, "status", Finished)
        position_int == safe_int(position, None)
    IN  IF ~Truthy(ResultsOf(race)) THEN acc
        ELSE IF Truthy(position) /\ ~is_dnf(status) /\ position_int # None
             THEN [positions |-> Append(acc.positions, position_int.v),
                   total_points |-> acc.total_points + points.m,
                   races_analyzed |-> acc.races_analyzed + 1]
        ELSE [acc EXCEPT !.total_points = @ + points.m]

\* One pass of the loop body: positions, total_points (in thousandths) and
\* races_analyzed after `race`.
form_body(acc, race) ==
    LET result == ResultsOf(race).items[1]
        position == Get(result, "position", None)
        points == safe_float(Get(result, "points", PyStr(<<"0">>)), PyFloat(0))
        status == Get(result, "status", Finished)
        position_int == safe_int(position, None)
    IN  IF ~Truthy(ResultsOf(race)) THEN acc
        ELSE IF Truthy(position) /\ ~is_dnf(status) /\ position_int # None
             THEN [positions |-> Append(acc.positions, position_int.v),
                   total_points |-> acc.total_points + points.m,
                   races_analyzed |-> acc.races_analyzed + 1]
        ELSE acc

\* The list and the two counters after the loop over the recent races.
RECURSIVE form_loop(_)
form_loop(races) ==
    IF races = <<>>
    THEN [positions |-> <<>>, total_points |-> 0, races_analyzed |-> 0]
    ELSE form_body(form_loop(SubSeq(races, 1, Len(races) - 1)), races[Len(races)])

\* polyfit_slope with x counted back from the newest race.
polyfit_slope_newest_first(positions) ==
    LET x == [i \in 1..Len(positions) |-> Len(positions) - i]
    IN  Ratio(ScaledCovariance(x, positions), ScaledVariance(x))

\* The slope np.polyfit(x, positions, 1) fits to x = 0, 1, ..., as the exact
\* least-squares ratio.
polyfit_slope(positions) ==
    LET x == [i \in 1..Len(positions) |-> i - 1]
    IN  Ratio(ScaledCovariance(x, positions), ScaledVariance(x))

\* trend_direction_of with the two directions exchanged.
trend_direction_reversed(slope) ==
    IF 10 * (IF slope.num < 0 THEN 0 - slope.num ELSE slope.num) < 3 * slope.den
    THEN "stable"
    ELSE IF slope.num < 0 THEN "declining"
    ELSE "improving"

\* The direction of a fitted slope (its den is positive).
trend_direction_of(slope) ==
    IF 10 * (IF slope.num < 0 THEN 0 - slope.num ELSE slope.num) < 3 * slope.den
    THEN "stable"
    ELSE IF slope.num < 0 THEN "improving"
    ELSE "declining"

\* The dict returned for a non-empty list of positions.
form_metrics(acc) ==
    LET slope == IF Len(acc.positions) >= 2 THEN polyfit_slope(acc.positions)
                 ELSE Ratio(0, 1)
    IN  [avg_position |-> Round(Ratio(Sum(acc.positions), Len(acc.positions)), 100),
         total_points |-> Round(Ratio(acc.total_points, 1000), 10),
         trend_direction |->
             IF Len(acc.positions) >= 2 THEN trend_direction_of(slope) ELSE "stable",
         trend_slope |-> Round(slope, 1000),
         races_analyzed |-> acc.races_analyzed]

calculate_analytics_form_indicator(races, n_races) ==
    IF races = <<>> THEN None
    ELSE IF form_loop(Slice(races, n_races)).positions = <<>> THEN None
    ELSE form_metrics(form_loop(Slice(races, n_races)))

\* --------------------------------------------------------------- DNF rate

\* The AttributeError of status.startswith on a status that is no str (None
\* is not in the list, so the second operand of `or` is evaluated).
AttributeError == [t |-> "raise", exception |-> "AttributeError"]

is_dnf_raises(status) == status.t # "str"

mechanical_statuses ==
    <<Engine, Gearbox, Transmission, Clutch, Hydraulics, Electrical,
      Mechanical, Brakes, Suspension, FuelPressure, Overheating>>

accident_statuses == <<Accident, Collision, SpunOff>>

\* cause_of without the Accident bucket.
cause_of_mechanical_or_other(status) ==
    IF InList(status.s, mechanical_statuses) THEN "Mechanical" ELSE "Other"

\* The bucket of a DNF status.
cause_of(status) ==
    IF InList(status.s, mechanical_statuses) THEN "Mechanical"
    ELSE IF InList(status.s, accident_statuses) THEN "Accident"
    ELSE "Other"

\* dnf_causes[cause] = dnf_causes.get(cause, 0) + 1.
CountCause(dnf_causes, cause) ==
    [c \in DOMAIN dnf_causes \cup {cause} |->
        IF c = cause THEN Get(dnf_causes, cause, 0) + 1 ELSE dnf_causes[c]]

\* dnf_body recording the Mechanical and Accident buckets only.
dnf_body_drops_other(acc, race) ==
    LET status == Get(ResultsOf(race).items[1], "status", Finished)
    IN  IF acc.raised \/ ~Truthy(ResultsOf(race)) THEN acc
        ELSE IF is_dnf_raises(status) THEN [acc EXCEPT !.raised = TRUE]
        ELSE IF is_dnf(status)
             THEN [acc EXCEPT
                       !.dnf_count = @ + 1,
                       !.dnf_causes = IF cause_of(status) = "Other" THEN @
                                      ELSE CountCause(@, cause_of(status))]
        ELSE acc

\* One pass of the loop body: dnf_count and dnf_causes after `race`, or the
\* exception that left the loop.
dnf_body(acc, race) ==
    LET status == Get(ResultsOf(race).items[1], "status", Finished)
    IN  IF acc.raised \/ ~Truthy(ResultsOf(race)) THEN acc
        ELSE IF is_dnf_raises(status) THEN [acc EXCEPT !.raised = TRUE]
        ELSE IF is_dnf(status)
             THEN [acc EXCEPT !.dnf_count = @ + 1,
                              !.dnf_causes = CountCause(@, cause_of(status))]
        ELSE acc

\* The counter and the buckets after the loop over the races.
RECURSIVE dnf_loop(_)
dnf_loop(races) ==
    IF races = <<>>
    THEN [dnf_count |-> 0, dnf_causes |-> <<>>, raised |-> FALSE]
    ELSE dnf_body(dnf_loop(SubSeq(races, 1, Len(races) - 1)), races[Len(races)])

\* The function dividing by the number of races that have a result.
dnf_rate_over_results(races) ==
    IF races = <<>>
    THEN [dnf_percentage |-> PyFloat(0), dnf_count |-> 0, total_races |-> 0,
          dnf_causes |-> <<>>]
    ELSE IF dnf_loop(races).raised THEN AttributeError
    ELSE LET total_races ==
                 Cardinality({i \in 1..Len(races) : Truthy(ResultsOf(races[i]))})
         IN  [dnf_percentage |->
                  Round(safe_divide(PyFloat(1000 * dnf_loop(races).dnf_count * 100),
                                    total_races, Ratio(0, 1)), 10),
              dnf_count |-> dnf_loop(races).dnf_count,
              total_races |-> total_races,
              dnf_causes |-> dnf_loop(races).dnf_causes]

\* The time_period argument is not read by the function.
calculate_analytics_dnf_rate(races) ==
    IF races = <<>>
    THEN [dnf_percentage |-> PyFloat(0), dnf_count |-> 0, total_races |-> 0,
          dnf_causes |-> <<>>]
    ELSE IF dnf_loop(races).raised THEN AttributeError
    ELSE [dnf_percentage |->
              Round(safe_divide(PyFloat(1000 * dnf_loop(races).dnf_count * 100),
                                Len(races), Ratio(0, 1)), 10),
          dnf_count |-> dnf_loop(races).dnf_count,
          total_races |-> Len(races),
          dnf_causes |-> dnf_loop(races).dnf_causes]

\* The st.warning of safe_correlation, reached once min_races data points
\* were collected: one notice when two or more points have no variance in
\* the grid or in the finishing positions.
correlation_warnings(races, min_races) ==
    LET acc == correlation_loop(races)
    IN  IF /\ races # <<>>
           /\ Len(acc.grid_positions) >= min_races
           /\ Len(acc.grid_positions) >= 2
           /\ \/ ScaledVariance(acc.grid_positions) = 0
              \/ ScaledVariance(acc.finish_positions) = 0
        THEN <<"warning: zero variance">>
        ELSE <<>>

\* ------------------------------------------------------------ race lists
\* What the data-retrieval layer hands to the analytics: a list of race dicts,
\* each with at most one result dict; any key may be missing.

Race(name, round, results) ==
    Dict({<<"raceName", name>>,
          <<"date", PyStr(<<"2", "0", "2", "4", "-", "0", "3", "-", "0", "2">>)>>,
          <<"round", round>>,
          <<"Results", results>>})

Result(position, points, grid, status) ==
    Dict({<<"position", position>>, <<"points", points>>,
          <<"grid", grid>>, <<"status", status>>})

OneResult(position, points, grid, status) == PyList(<<Result(position, points, grid, status)>>)

RaceLists(races) == UNION {[1..n -> races] : n \in 0..MaxRaces}

LapDown == PyStr(<<"+", "1", " ", "L", "a", "p">>)

PowerUnit == PyStr(<<"P", "o", "w", "e", "r", " ", "U", "n", "i", "t">>)

GrandPrix == PyStr(<<"G", "P">>)

TrendRaces ==
    {Race(GrandPrix, round, results) :
        round \in {PyStr(<<"1">>), PyStr(<<"1", "2">>)},
        results \in {Absent,
                     PyList(<<>>),
                     OneResult(PyStr(<<"3">>), PyStr(<<"1", "5">>), PyStr(<<"2">>), Finished),
                     OneResult(R_, PyStr(<<"0">>), PyStr(<<"5">>), PyStr(Engine)),
                     OneResult(Absent, Absent, Absent, Absent)}}

PointsRaces ==
    {Race(GrandPrix, PyStr(<<"1">>), results) :
        results \in {PyList(<<>>),
                     OneResult(PyStr(<<"1">>), PyStr(<<"2", "5">>), PyStr(<<"1">>), Finished),
                     OneResult(PyStr(<<"9">>), PyStr(<<"0", ".", "5">>), PyStr(<<"7">>), Absent),
                     OneResult(R_, PyStr(<<"0">>), PyStr(<<"4">>), PyStr(Engine)),
                     OneResult(PyStr(<<"1", "0">>), PyStr(<<"1">>), PyStr(<<"3">>), LapDown),
                     OneResult(PyStr(<<"1", "2">>), Absent, PyStr(<<"9">>), Finished),
                     OneResult(R_, PyStr(<<"n", "/", "a">>), None, PyStr(Retired))}}

ConsistencyRaces ==
    {Race(GrandPrix, PyStr(<<"1">>), results) :
        results \in {PyList(<<>>),
                     OneResult(PyStr(<<"1">>), PyStr(<<"2", "5">>), PyStr(<<"1">>), Finished),
                     OneResult(PyStr(<<"3">>), PyStr(<<"1", "5">>), PyStr(<<"2">>), Finished),
                     OneResult(PyStr(<<"2", "2">>), PyStr(<<"0">>), PyStr(<<"2", "0">>), Absent),
                     OneResult(PyStr(<<"1", "5">>), PyStr(<<"0">>), PyStr(<<"6">>), PowerUnit),
                     OneResult(PyStr(<<"1", "8">>), PyStr(<<"0">>), PyStr(<<"6">>), PyStr(Engine)),
                     OneResult(R_, PyStr(<<"0">>), PyStr(<<"6">>), Finished),
                     OneResult(PyStr(<<"0">>), PyStr(<<"0">>), PyStr(<<"6">>), Finished),
                     OneResult(None, PyStr(<<"0">>), PyStr(<<"6">>), Finished)}}

CorrelationRaces ==
    {Race(Absent, PyStr(<<"1">>),
          OneResult(PyStr(<<"3">>), PyStr(<<"1", "5">>), PyStr(<<"4">>), Finished))}
    \cup
    {Race(GrandPrix, PyStr(<<"1">>), results) :
        results \in {PyList(<<>>),
                     OneResult(PyStr(<<"1">>), PyStr(<<"2", "5">>), PyStr(<<"1">>), Finished),
                     OneResult(PyStr(<<"2">>), PyStr(<<"1", "8">>), PyStr(<<"5">>), Absent),
                     OneResult(PyStr(<<"4">>), PyStr(<<"1", "2">>), PyStr(<<"0">>), Finished),
                     OneResult(PyStr(<<"3">>), PyStr(<<"1", "5">>), PyStr(<<"2">>), PyStr(Engine)),
                     OneResult(PyStr(<<"5">>), PyStr(<<"1", "0">>), None, LapDown),
                     OneResult(None, PyStr(<<"0">>), PyStr(<<"3">>), Finished),
                     OneResult(PyStr(<<"6">>), PyStr(<<"8">>), PyStr(<<>>), Finished),
                     OneResult(R_, PyStr(<<"0">>), PyStr(<<"4">>), PowerUnit)}}

\* A classified race of the given round with a grid and a finishing position.
QualifyingRace(round, grid, position, status) ==
    Race(PyStr(<<"G", "P", round>>), PyStr(<<round>>),
         OneResult(PyStr(<<position>>), PyStr(<<"0">>), PyStr(<<grid>>), status))

\* Races with a usable grid and finishing position, one retirement and one
\* race without a name.
QualifyingRaces ==
    {QualifyingRace("1", "1", "6", Finished),
     QualifyingRace("2", "2", "1", Finished),
     QualifyingRace("3", "6", "3", Finished),
     QualifyingRace("4", "1", "4", Finished),
     QualifyingRace("5", "7", "6", Finished),
     QualifyingRace("6", "1", "1", Finished),
     QualifyingRace("7", "2", "2", Finished),
     QualifyingRace("8", "3", "9", PyStr(Engine)),
     Race(Absent, PyStr(<<"9">>),
          OneResult(PyStr(<<"1">>), PyStr(<<"2", "5">>), PyStr(<<"1">>), Absent))}

\* A classified finish of the given position.
FormRace(position) ==
    Race(GrandPrix, PyStr(<<"1">>),
         OneResult(PyStr(<<position>>), PyStr(<<"1">>), PyStr(<<"5">>), Finished))

FormRaces ==
    {Race(GrandPrix, PyStr(<<"1">>), results) :
        results \in {PyList(<<>>),
                     OneResult(PyStr(<<"1">>), PyStr(<<"2", "5">>), PyStr(<<"1">>), Finished),
                     OneResult(PyStr(<<"4">>), PyStr(<<"1", "2">>), PyStr(<<"3">>), Absent),
                     OneResult(PyStr(<<"2">>), PyStr(<<"1", "8", ".", "5">>), PyStr(<<"2">>), PowerUnit),
                     OneResult(PyStr(<<"1", "1">>), PyStr(<<"1">>), PyStr(<<"9">>), LapDown),
                     OneResult(PyStr(<<"1", "7">>), PyStr(<<"0">>), PyStr(<<"6">>), PyStr(Engine)),
                     OneResult(R_, PyStr(<<"0">>), PyStr(<<"8">>), Finished),
                     OneResult(None, PyStr(<<"0">>), PyStr(<<"8">>), Finished)}}

\* A season of 22 finishes drifting from 2nd to 9th place.
SeasonRun ==
    [i \in 1..22 |->
        FormRace(<<"2", "2", "3", "3", "3", "4", "4", "5", "4", "6", "4",
                   "5", "6", "6", "6", "6", "6", "7", "8", "8", "8", "9">>[i])]

\* Races without a result, finished, retired for a cause of each bucket, and
\* one whose status is null.
DnfRateRaces ==
    {Race(GrandPrix, PyStr(<<"1">>), results) :
        results \in {Absent,
                     PyList(<<>>),
                     OneResult(PyStr(<<"1">>), PyStr(<<"2", "5">>), PyStr(<<"1">>), Finished),
                     OneResult(PyStr(<<"7">>), PyStr(<<"6">>), PyStr(<<"9">>), Absent),
                     OneResult(PyStr(<<"1", "2">>), PyStr(<<"0">>), PyStr(<<"9">>), PowerUnit),
                     OneResult(R_, PyStr(<<"0">>), PyStr(<<"4">>), PyStr(Engine)),
                     OneResult(R_, PyStr(<<"0">>), PyStr(<<"4">>), PyStr(Collision)),
                     OneResult(R_, PyStr(<<"0">>), PyStr(<<"4">>), PyStr(Retired)),
                     OneResult(PyStr(<<"1", "1">>), PyStr(<<"0">>), PyStr(<<"9">>), LapDown),
                     OneResult(PyStr(<<"5">>), PyStr(<<"1", "0">>), PyStr(<<"3">>), None)}}

\* A retirement (or a finish) with the given status.
StatusRace(status) ==
    Race(GrandPrix, PyStr(<<"1">>),
         OneResult(R_, PyStr(<<"0">>), PyStr(<<"4">>), PyStr(status)))

\* One race for each of the fifteen causes, for a lapped finish, and for
\* three statuses that are no DNF.
CauseRaces ==
    {StatusRace(dnf_statuses[i]) : i \in 1..Len(dnf_statuses)}
    \cup {StatusRace(status) : status \in {LapDown.s, Finished.s, PowerUnit.s, <<>>}}

CauseLists == UNION {[1..n -> CauseRaces] : n \in 0..MaxCauseRaces}

\* Status texts: the fifteen causes, each of them with a character added or
\* removed at either end, and texts of the API and of the tests.
StatusTexts ==
    {dnf_statuses[i] : i \in 1..Len(dnf_statuses)}
    \cup {<<"+">> \o dnf_statuses[i] : i \in 1..Len(dnf_statuses)}
    \cup {dnf_statuses[i] \o <<"+">> : i \in 1..Len(dnf_statuses)}
    \cup {<<" ">> \o dnf_statuses[i] : i \in 1..Len(dnf_statuses)}
    \cup {dnf_statuses[i] \o <<" ">> : i \in 1..Len(dnf_statuses)}
    \cup {Tail(dnf_statuses[i]) : i \in 1..Len(dnf_statuses)}
    \cup {SubSeq(dnf_statuses[i], 1, Len(dnf_statuses[i]) - 1) : i \in 1..Len(dnf_statuses)}
    \cup {Finished.s, PowerUnit.s, LapDown.s, <<>>, <<"+">>, <<"1">>,
          <<"+", "2", " ", "L", "a", "p", "s">>,
          <<"-", "1", " ", "L", "a", "p">>,
          <<"e", "n", "g", "i", "n", "e">>,
          <<"R", "E", "T", "I", "R", "E", "D">>,
          <<"R", "u", "n", "n", "i", "n", "g">>,
          <<"C", "o", "m", "p", "l", "e", "t", "e", "d">>}

\* Results of a 22-car field, a position of "0" and a negative points text
\* among ordinary ones.
TrendValueRaces ==
    {Race(GrandPrix, PyStr(<<"1">>), results) :
        results \in {PyList(<<>>),
                     OneResult(PyStr(<<"1">>), PyStr(<<"2", "5">>), PyStr(<<"1">>), Finished),
                     OneResult(PyStr(<<"2", "0">>), PyStr(<<"0">>), PyStr(<<"1", "8">>), LapDown),
                     OneResult(PyStr(<<"2", "2">>), PyStr(<<"0">>), PyStr(<<"2", "1">>), LapDown),
                     OneResult(PyStr(<<"0">>), PyStr(<<"-", "1">>), PyStr(<<"0">>), Finished),
                     OneResult(PyStr(<<"1", "0">>), PyStr(<<"0", ".", "5">>), PyStr(<<"9">>), Finished),
                     OneResult(R_, PyStr(<<"0">>), PyStr(<<"5">>), PyStr(Engine)),
                     OneResult(Absent, Absent, Absent, Absent)}}

\* Five finishes from 6th up to 2nd place.
ImprovingRun ==
    [i \in 1..5 |-> FormRace(<<"6", "5", "4", "3", "2">>[i])]

\* ------------------------------------------------------------------ calls

Metrics == {"position", "points"}

MinRaces == 0..MaxMinRaces

NothingCalled ==
    /\ trends = [metric \in Metrics |-> NotCalled]
    /\ points_per_race = [exclude_dnf \in BOOLEAN |-> NotCalled]
    /\ consistency = NotCalled
    /\ correlation = NotCalled
    /\ dnf_rate = NotCalled
    /\ form = NotCalled
    /\ status_check = NotCalled
    /\ notices = <<>>
    /\ fetch = NotCalled

\* A call of calculate_analytics_performance_trends(race_results, metric).
CallPerformanceTrends(metric) ==
    /\ trends[metric] = NotCalled
    /\ trends' = [trends EXCEPT
                      ![metric] = calculate_analytics_performance_trends(race_results, metric)]
    /\ UNCHANGED <<race_results, points_per_race, consistency, correlation, dnf_rate, form,
                 status_check, notices, fetch>>

\* A call of calculate_analytics_points_per_race(race_results, exclude_dnf).
CallPointsPerRace(exclude_dnf) ==
    /\ points_per_race[exclude_dnf] = NotCalled
    /\ points_per_race' =
           [points_per_race EXCEPT
                ![exclude_dnf] = calculate_analytics_points_per_race(race_results, exclude_dnf)]
    /\ UNCHANGED <<race_results, trends, consistency, correlation, dnf_rate, form,
                 status_check, notices, fetch>>

\* A call of calculate_analytics_consistency_score(race_results, min_races).
CallConsistencyScore(min_races) ==
    /\ consistency' =
           [min_races |-> min_races,
            ret |-> calculate_analytics_consistency_score(race_results, min_races)]
    /\ notices' = notices \o consistency_warnings(race_results, min_races)
    /\ Len(notices') <= MaxNotices
    /\ UNCHANGED <<race_results, trends, points_per_race, correlation, dnf_rate, form,
                   status_check, fetch>>

\* A call of calculate_analytics_qualifying_race_correlation(race_results, min_races).
CallQualifyingRaceCorrelation(min_races) ==
    /\ correlation' =
           [min_races |-> min_races,
            ret |-> calculate_analytics_qualifying_race_correlation(race_results, min_races)]
    /\ notices' = notices \o correlation_warnings(race_results, min_races)
    /\ Len(notices') <= MaxNotices
    /\ UNCHANGED <<race_results, trends, points_per_race, consistency, dnf_rate, form,
                   status_check, fetch>>

InitTrends == race_results \in RaceLists(TrendRaces) /\ NothingCalled

NextTrends == \E metric \in Metrics : CallPerformanceTrends(metric)

SpecTrends == InitTrends /\ [][NextTrends]_vars

InitPoints == race_results \in RaceLists(PointsRaces) /\ NothingCalled

NextPoints == \E exclude_dnf \in BOOLEAN : CallPointsPerRace(exclude_dnf)

SpecPoints == InitPoints /\ [][NextPoints]_vars

InitConsistency == race_results \in RaceLists(ConsistencyRaces) /\ NothingCalled

NextConsistency == \E min_races \in MinRaces : CallConsistencyScore(min_races)

SpecConsistency == InitConsistency /\ [][NextConsistency]_vars

InitCorrelation == race_results \in RaceLists(CorrelationRaces) /\ NothingCalled

NextCorrelation == \E min_races \in MinRaces : CallQualifyingRaceCorrelation(min_races)

SpecCorrelation == InitCorrelation /\ [][NextCorrelation]_vars

InitQualifying == race_results \in RaceLists(QualifyingRaces) /\ NothingCalled

SpecQualifying == InitQualifying /\ [][NextCorrelation]_vars

\* The n_races arguments drawn: short windows and the whole season.
NRaces == (0..MaxNRaces) \cup {Len(SeasonRun)}

\* A call of calculate_analytics_form_indicator(race_results, n_races).
CallFormIndicator(n_races) ==
    /\ form' = [n_races |-> n_races,
                ret |-> calculate_analytics_form_indicator(race_results, n_races)]
    /\ UNCHANGED <<race_results, trends, points_per_race, consistency, correlation, dnf_rate,
                 status_check, notices, fetch>>

InitForm ==
    /\ race_results \in RaceLists(FormRaces) \cup {SeasonRun, ImprovingRun}
    /\ NothingCalled

NextForm == \E n_races \in NRaces : CallFormIndicator(n_races)

SpecForm == InitForm /\ [][NextForm]_vars

\* A call of calculate_analytics_dnf_rate(race_results).
CallDnfRate ==
    /\ dnf_rate' = calculate_analytics_dnf_rate(race_results)
    /\ UNCHANGED <<race_results, trends, points_per_race, consistency, correlation, form,
                 status_check, notices, fetch>>

InitDnfRate == race_results \in RaceLists(DnfRateRaces) /\ NothingCalled

NextDnfRate == CallDnfRate

SpecDnfRate == InitDnfRate /\ [][NextDnfRate]_vars

InitDnfCauses == race_results \in CauseLists /\ NothingCalled

SpecDnfCauses == InitDnfCauses /\ [][NextDnfRate]_vars

\* A call of is_dnf(status).
CallIsDnf(status) ==
    /\ status_check' = [status |-> status, ret |-> is_dnf(PyStr(status))]
    /\ UNCHANGED <<race_results, trends, points_per_race, consistency, correlation,
                   dnf_rate, form, notices, fetch>>

InitIsDnf == race_results = <<>> /\ NothingCalled

NextIsDnf == \E status \in StatusTexts : CallIsDnf(status)

SpecIsDnf == InitIsDnf /\ [][NextIsDnf]_vars

InitTrendValues == race_results \in RaceLists(TrendValueRaces) /\ NothingCalled

SpecTrendValues == InitTrendValues /\ [][NextTrends]_vars

\* ------------------------------------------------------- fetch_with_retry
\* The function is followed step by step: a request with its outcome and the
\* handling of it, and the sleep before the next attempt.

RETRY_DELAY == 1

\* What requests.get, raise_for_status and response.json can come to.
Outcomes == {"ok", "timeout", "5xx", "4xx", "network error", "bad json"}

\* The parsed JSON body of a successful response.
Json == [t |-> "dict"]

Running == [t |-> "running"]

\* The outcomes whose handlers may `continue`.
retryable_with_4xx(outcome) == outcome \in {"timeout", "5xx", "4xx"}

retryable(outcome) == outcome \in {"timeout", "5xx"}

\* The check that sleeps once more after the last attempt.
may_retry_after_last(attempt, max_retries) == attempt < max_retries

\* `attempt < max_retries - 1`.
may_retry(attempt, max_retries) == attempt < max_retries - 1

\* The argument of time.sleep.
retry_delay(attempt) == RETRY_DELAY * (attempt + 1)

\* The st.error of each handler.  A body that is no JSON raises an exception
\* that is a ValueError and, with current versions of requests, also a
\* RequestException, whose handler comes first.
error_notices(outcome) ==
    IF outcome = "timeout" THEN {"error: timed out"}
    ELSE IF outcome = "5xx" THEN {"error: server error"}
    ELSE IF outcome = "4xx" THEN {"error: data not available"}
    ELSE IF outcome = "network error" THEN {"error: network error"}
    ELSE {"error: network error", "error: invalid data"}

\* fetch_with_retry(url, max_retries) is entered; range(max_retries) is
\* empty for 0.
CallFetch(max_retries) ==
    /\ fetch = NotCalled
    /\ fetch' = [pc |-> IF max_retries > 0 THEN "request" ELSE "done",
                 max_retries |-> max_retries,
                 attempt |-> 0,
                 requests |-> 0,
                 outcomes |-> <<>>,
                 sleeps |-> <<>>,
                 ret |-> IF max_retries > 0 THEN Running ELSE None]
    /\ UNCHANGED <<race_results, trends, points_per_race, consistency, correlation,
                   dnf_rate, form, status_check, notices>>

\* One pass of the try block with its handlers, up to the return or the sleep.
Request(outcome) ==
    /\ fetch # NotCalled
    /\ fetch.pc = "request"
    /\ LET issued == [fetch EXCEPT !.requests = @ + 1,
                                   !.outcomes = Append(@, outcome)]
       IN  IF outcome = "ok"
           THEN /\ fetch' = [issued EXCEPT !.pc = "done", !.ret = Json]
                /\ notices' = notices
           ELSE IF retryable(outcome) /\ may_retry(fetch.attempt, fetch.max_retries)
           THEN /\ fetch' = [issued EXCEPT !.pc = "sleep"]
                /\ notices' = notices
           ELSE /\ fetch' = [issued EXCEPT !.pc = "done", !.ret = None]
                /\ \E notice \in error_notices(outcome) :
                       notices' = Append(notices, notice)
    /\ UNCHANGED <<race_results, trends, points_per_race, consistency, correlation,
                   dnf_rate, form, status_check>>

\* time.sleep and `continue`: the next attempt, or the end of the loop and
\* the final `return None`.
Sleep ==
    /\ fetch # NotCalled
    /\ fetch.pc = "sleep"
    /\ fetch' = [fetch EXCEPT
                     !.sleeps = Append(@, retry_delay(fetch.attempt)),
                     !.attempt = @ + 1,
                     !.pc = IF fetch.attempt + 1 < fetch.max_retries
                            THEN "request" ELSE "done",
                     !.ret = IF fetch.attempt + 1 < fetch.max_retries
                             THEN Running ELSE None]
    /\ UNCHANGED <<race_results, trends, points_per_race, consistency, correlation,
                   dnf_rate, form, status_check, notices>>

InitFetch == race_results = <<>> /\ NothingCalled

NextFetch ==
    \/ \E max_retries \in 0..MaxRetriesDrawn : CallFetch(max_retries)
    \/ \E outcome \in Outcomes : Request(outcome)
    \/ Sleep

SpecFetch == InitFetch /\ [][NextFetch]_vars

\* requests.get is given a timeout and time.sleep a finite delay, so a
\* request that was started and a sleep that was started come to an end.
SpecFetchFair ==
    /\ SpecFetch
    /\ WF_vars(\E outcome \in Outcomes : Request(outcome))
    /\ WF_vars(Sleep)

\* ============================================================== properties

\* The race has a non-empty result list.
HasResult(race) == Truthy(ResultsOf(race))

FirstResult(race) == ResultsOf(race).items[1]

\* The race has a result entry whose status satisfies is_dnf.
IsDnfRace(race) ==
    /\ HasResult(race)
    /\ "status" \in DOMAIN FirstResult(race)
    /\ is_dnf(FirstResult(race)["status"])

\* The points a race scored, in thousandths (0 without a result or a number).
PointsScored(race) ==
    IF HasResult(race) /\ "points" \in DOMAIN FirstResult(race)
    THEN safe_float(FirstResult(race)["points"], PyFloat(0)).m
    ELSE 0

RECURSIVE PointsSum(_, _)
PointsSum(races, indices) ==
    IF indices = {} THEN 0
    ELSE LET i == CHOOSE j \in indices : TRUE
         IN  PointsScored(races[i]) + PointsSum(races, indices \ {i})

DnfRaces == {i \in 1..Len(race_results) : IsDnfRace(race_results[i])}

OtherRaces == {i \in 1..Len(race_results) : ~IsDnfRace(race_results[i])}

RacesWithResult == {i \in 1..Len(race_results) : HasResult(race_results[i])}

\* C1 (as claimed): for each metric, performanceTrends returns exactly
\* len(R) points, in input order, the i-th carrying the round number of the
\* i-th input race, races with an empty or missing result list included.
C1_OnePointPerRace ==
    \A metric \in Metrics :
        trends[metric] # NotCalled =>
            /\ Len(trends[metric].rows) = Len(race_results)
            /\ \A i \in 1..Len(race_results) :
                   trends[metric].rows[i].round
                       = PyInt(IntLiteralValue(race_results[i]["round"].s))

\* C2 (as claimed): totalPoints is the same with excludeDnf true and false,
\* also when a race whose status satisfies isDnf scored points.
C2_TotalUnaffectedByExcludeDnf ==
    (points_per_race[TRUE] # NotCalled /\ points_per_race[FALSE] # NotCalled)
        => points_per_race[TRUE].total_points = points_per_race[FALSE].total_points

\* C2 (amended): with excludeDnf true, totalPoints is the sum, rounded to one
\* decimal, of the points of the races whose status does not satisfy isDnf; it
\* equals the excludeDnf = false total whenever no DNF race scored points.
C2_TotalExcludesDnfPoints ==
    /\ points_per_race[TRUE] # NotCalled =>
           points_per_race[TRUE].total_points
               = Round(Ratio(PointsSum(race_results, OtherRaces), 1000), 10)
    /\ (/\ points_per_race[TRUE] # NotCalled
        /\ points_per_race[FALSE] # NotCalled
        /\ \A i \in DnfRaces : PointsScored(race_results[i]) = 0)
           => points_per_race[TRUE].total_points = points_per_race[FALSE].total_points

\* Both totals computed on a list in which a DNF race scored points.
C2_Witness ==
    /\ points_per_race[TRUE] # NotCalled
    /\ points_per_race[FALSE] # NotCalled
    /\ \E i \in DnfRaces : PointsScored(race_results[i]) > 0
    /\ points_per_race[TRUE].total_points.m < points_per_race[FALSE].total_points.m

\* C3 (as claimed): racesCounted is len(R) with excludeDnf false, and the
\* number of races of R whose status does not satisfy isDnf with it true.
C3_RacesCountedIsLength ==
    /\ points_per_race[FALSE] # NotCalled =>
           points_per_race[FALSE].races_counted = Len(race_results)
    /\ points_per_race[TRUE] # NotCalled =>
           points_per_race[TRUE].races_counted = Cardinality(OtherRaces)

\* C3 (amended): racesCounted is the number of races of R that have a result
\* entry with excludeDnf false, and the number of those whose status does not
\* satisfy isDnf with it true.
C3_RacesCountedWithResult ==
    /\ points_per_race[FALSE] # NotCalled =>
           points_per_race[FALSE].races_counted = Cardinality(RacesWithResult)
    /\ points_per_race[TRUE] # NotCalled =>
           points_per_race[TRUE].races_counted = Cardinality(RacesWithResult \ DnfRaces)

\* Both counts computed on a list with a race without result and a DNF race.
C3_Witness ==
    /\ points_per_race[TRUE] # NotCalled
    /\ points_per_race[FALSE] # NotCalled
    /\ points_per_race[TRUE].races_counted < points_per_race[FALSE].races_counted
    /\ points_per_race[FALSE].races_counted < Len(race_results)

\* The value of an int or of a float, in thousandths.
Thousandths(value) == IF value.t = "int" THEN 1000 * value.v ELSE value.m

\* The text under a key of the race's result parses to an integer / to a
\* positive integer.
ParsesToInt(race, key) ==
    /\ key \in DOMAIN FirstResult(race)
    /\ FirstResult(race)[key].t = "str"
    /\ IsIntLiteral(FirstResult(race)[key].s)

ParsesToPositive(race, key) ==
    ParsesToInt(race, key) /\ IntLiteralValue(FirstResult(race)[key].s) > 0

\* The key is missing from the race's result, or holds None or the empty text.
IsMissing(race, key) ==
    \/ key \notin DOMAIN FirstResult(race)
    \/ FirstResult(race)[key] = None
    \/ FirstResult(race)[key] = PyStr(<<>>)

\* The races whose status is exactly "Finished" and whose position parses to
\* a positive integer.
FinishedRaces ==
    {i \in RacesWithResult :
        /\ "status" \in DOMAIN FirstResult(race_results[i])
        /\ FirstResult(race_results[i])["status"] = Finished
        /\ ParsesToPositive(race_results[i], "position")}

\* C4 (as claimed): completed_races is the number of races whose status is
\* exactly "Finished" and whose position parses to a positive integer.
C4_CompletedIffFinished ==
    (consistency # NotCalled /\ consistency.ret # None)
        => consistency.ret.completed_races = Cardinality(FinishedRaces)

\* C5 (as claimed): consistencyScore(R, minRaces) is absent if and only if
\* the number of completed races of R is < minRaces, the empty R included.
C5_AbsentIffTooFew ==
    consistency # NotCalled =>
        (consistency.ret = None
            <=> Len(completed_positions(race_results)) < consistency.min_races)

\* C5 (amended): consistencyScore(R, minRaces) is absent if and only if R is
\* empty or the number of completed races of R is < minRaces.
C5_AbsentIffEmptyOrTooFew ==
    consistency # NotCalled =>
        (consistency.ret = None
            <=> (\/ race_results = <<>>
                 \/ Len(completed_positions(race_results)) < consistency.min_races))

\* A result returned with exactly min_races completed races.
C5_Witness ==
    /\ consistency # NotCalled
    /\ consistency.ret # None
    /\ consistency.min_races > 0
    /\ consistency.ret.completed_races = consistency.min_races

\* The sum of (x_i - x_j)^2 over the pairs i < j: n^2 times the population
\* variance of xs.
PairwiseSquares(xs) ==
    LET pairs == {p \in (1..Len(xs)) \X (1..Len(xs)) : p[1] < p[2]}
        sq[todo \in SUBSET pairs] ==
            IF todo = {} THEN 0
            ELSE LET p == CHOOSE q \in todo : TRUE
                 IN  (xs[p[1]] - xs[p[2]]) * (xs[p[1]] - xs[p[2]]) + sq[todo \ {p}]
    IN  sq[pairs]

\* tenths is within half a tenth of 100 - 10 * sqrt(spread) / n.
IsRoundedScore(tenths, spread, n) ==
    LET d == 1000 - tenths
    IN  /\ (2 * d - 1 <= 0 \/ (2 * d - 1) * (2 * d - 1) * n * n <= 40000 * spread)
        /\ 40000 * spread <= (2 * d + 1) * (2 * d + 1) * n * n

\* C6: a returned consistency_score lies in [0, 100] and is
\* max(0, 100 - 10 * stdDev) rounded to one decimal, stdDev the population
\* standard deviation of the completed positions; stdDev = 0 gives exactly
\* 100 and stdDev >= 10 gives exactly 0.
C6_ScoreFromStdDev ==
    (consistency # NotCalled /\ consistency.ret # None) =>
        LET score == Thousandths(consistency.ret.consistency_score)
            xs == completed_positions(race_results)
            n == Len(xs)
            spread == PairwiseSquares(xs)
        IN  /\ 0 <= score /\ score <= 100000
            /\ score % 100 = 0
            /\ n > 0 =>
                   /\ spread >= 100 * n * n => score = 0
                   /\ spread < 100 * n * n => IsRoundedScore(score \div 100, spread, n)
                   /\ spread = 0 => score = 100000

\* A score strictly between 0 and 100 from at least two completed races.
C6_Witness ==
    /\ consistency # NotCalled
    /\ consistency.ret # None
    /\ consistency.ret.completed_races >= 2
    /\ Thousandths(consistency.ret.consistency_score) > 0
    /\ Thousandths(consistency.ret.consistency_score) < 100000

\* C7: in every non-absent result of qualifyingRaceCorrelation,
\* insufficient_data is true if and only if races_analyzed < minRaces.
C7_InsufficientIffTooFew ==
    (correlation # NotCalled /\ correlation.ret # None) =>
        (correlation.ret.insufficient_data
            <=> correlation.ret.races_analyzed < correlation.min_races)

\* A computed result from exactly min_races data points.
C7_Witness ==
    /\ correlation # NotCalled
    /\ correlation.ret # None
    /\ ~correlation.ret.insufficient_data
    /\ correlation.min_races > 0
    /\ correlation.ret.races_analyzed = correlation.min_races

\* The races that may contribute a data point: grid and position both parse
\* to positive integers and the status is not a DNF.
EligibleRaces ==
    {i \in RacesWithResult :
        /\ ParsesToPositive(race_results[i], "grid")
        /\ ParsesToPositive(race_results[i], "position")
        /\ ~IsDnfRace(race_results[i])}

\* C8 (as claimed): only a race whose grid and position both parse to
\* positive integers and whose status is not a DNF contributes a data point;
\* a grid of "0" or a negative value never produces one.
C8_OnlyPositiveDataPoints ==
    (correlation # NotCalled /\ correlation.ret # None) =>
        /\ Len(correlation.ret.scatter_data) <= Cardinality(EligibleRaces)
        /\ \A k \in 1..Len(correlation.ret.scatter_data) :
               /\ correlation.ret.scatter_data[k].grid > 0
               /\ correlation.ret.scatter_data[k].finish > 0

MissingDataRaces ==
    {i \in RacesWithResult :
        IsMissing(race_results[i], "grid") \/ IsMissing(race_results[i], "position")}

\* Both fields present, the status not a DNF, and one of them no integer.
UnparsedRaces ==
    {i \in RacesWithResult \ MissingDataRaces :
        /\ ~IsDnfRace(race_results[i])
        /\ \/ ~ParsesToInt(race_results[i], "grid")
           \/ ~ParsesToInt(race_results[i], "position")}

\* C9 (as claimed): missing_data_count is the number of races whose grid or
\* position is missing.
C9_MissingCountIsMissingRaces ==
    (correlation # NotCalled /\ correlation.ret # None) =>
        correlation.ret.missing_data_count = Cardinality(MissingDataRaces)

\* C9 (amended): missing_data_count is the number of races with a result
\* entry whose grid or position is missing, None or empty, plus the number of
\* races with both present and a non-DNF status of which the grid or the
\* position does not parse to an integer; a DNF race with both present is
\* excluded without being counted.
C9_MissingCountAlsoUnparsed ==
    (correlation # NotCalled /\ correlation.ret # None) =>
        correlation.ret.missing_data_count
            = Cardinality(MissingDataRaces) + Cardinality(UnparsedRaces)

\* A count over a list with a DNF race that has both fields and a non-DNF
\* race whose position is no integer.
C9_Witness ==
    /\ correlation # NotCalled
    /\ correlation.ret # None
    /\ UnparsedRaces # {}
    /\ DnfRaces \ MissingDataRaces # {}
    /\ MissingDataRaces # {}

ClassOfReported(coefficient) ==
    IF coefficient = None THEN "insufficient data"
    ELSE IF coefficient.m < -300 THEN "strong race performer"
    ELSE IF coefficient.m > 700 THEN "qualifying-dependent performer"
    ELSE "balanced performer"

\* C11 (as claimed): the classification is a function of the returned,
\* 3-decimal-rounded correlation_coefficient alone: below -0.3 "strong race
\* performer", above 0.7 "qualifying-dependent performer", otherwise
\* "balanced performer", and "insufficient data" when it is absent.
C11_ClassificationFromReported ==
    (correlation # NotCalled /\ correlation.ret # None) =>
        correlation.ret.classification
            = ClassOfReported(correlation.ret.correlation_coefficient)

\* The races that give a data point: a result entry whose grid and position
\* parse to integers, with a status that is not a DNF.
DataPointRaces ==
    {i \in RacesWithResult :
        /\ ParsesToInt(race_results[i], "grid")
        /\ ParsesToInt(race_results[i], "position")
        /\ ~IsDnfRace(race_results[i])}

GridOf(i) == IntLiteralValue(FirstResult(race_results[i])["grid"].s)

FinishOf(i) == IntLiteralValue(FirstResult(race_results[i])["position"].s)

GridEqualsFinish == \A i \in DataPointRaces : GridOf(i) = FinishOf(i)

PerfectCorrelation ==
    /\ correlation.ret.correlation_coefficient = PyFloat(1000)
    /\ correlation.ret.avg_position_change = PyFloat(0)
    /\ correlation.ret.classification = "qualifying-dependent performer"

\* C12 (as claimed): whenever grid equals finish for every one of at least
\* minRaces valid races, the result has coefficient 1.0, average position
\* change 0 and classification "qualifying-dependent performer".
C12_PerfectWhenGridIsFinish ==
    (/\ correlation # NotCalled
     /\ correlation.ret # None
     /\ Cardinality(DataPointRaces) >= correlation.min_races
     /\ GridEqualsFinish)
        => PerfectCorrelation

\* C12 (amended): whenever grid equals finish for every one of at least
\* minRaces valid races and two of them have different grid positions, the
\* result has coefficient 1.0, average position change 0 and classification
\* "qualifying-dependent performer".
C12_PerfectWhenGridVaries ==
    (/\ correlation # NotCalled
     /\ correlation.ret # None
     /\ Cardinality(DataPointRaces) >= correlation.min_races
     /\ GridEqualsFinish
     /\ \E i, j \in DataPointRaces : GridOf(i) # GridOf(j))
        => PerfectCorrelation

\* A coefficient of 1.0 over two races with different grids, each finished
\* where it started, next to a race that retired elsewhere.
C12_Witness ==
    /\ correlation # NotCalled
    /\ correlation.min_races = 2
    /\ correlation.ret # None
    /\ GridEqualsFinish
    /\ \E i, j \in DataPointRaces : GridOf(i) # GridOf(j)
    /\ DnfRaces # {}
    /\ PerfectCorrelation

RECURSIVE ChangeSum(_)
ChangeSum(indices) ==
    IF indices = {} THEN 0
    ELSE LET i == CHOOSE j \in indices : TRUE
         IN  FinishOf(i) - GridOf(i) + ChangeSum(indices \ {i})

NoVariance ==
    \/ \A i, j \in DataPointRaces : GridOf(i) = GridOf(j)
    \/ \A i, j \in DataPointRaces : FinishOf(i) = FinishOf(j)

\* C13: when the number of valid points meets minRaces but the grid or the
\* finish series has zero variance, the coefficient is absent and the
\* classification "insufficient data", while insufficient_data stays false
\* and avg_position_change is still the mean of finish - grid (to 2 decimals).
C13_NoVarianceIsNotInsufficient ==
    (/\ correlation # NotCalled
     /\ correlation.ret # None
     /\ Cardinality(DataPointRaces) >= correlation.min_races
     /\ NoVariance)
        => /\ correlation.ret.correlation_coefficient = None
           /\ correlation.ret.classification = "insufficient data"
           /\ correlation.ret.insufficient_data = FALSE
           /\ DataPointRaces # {} =>
                  correlation.ret.avg_position_change
                      = Round(Ratio(ChangeSum(DataPointRaces),
                                    Cardinality(DataPointRaces)), 100)

\* Two or more points from the same grid slot with different finishes, enough
\* for min_races = 2, and a mean change that is not 0.
C13_Witness ==
    /\ correlation # NotCalled
    /\ correlation.min_races = 2
    /\ correlation.ret # None
    /\ Cardinality(DataPointRaces) >= 2
    /\ \A i, j \in DataPointRaces : GridOf(i) = GridOf(j)
    /\ \E i, j \in DataPointRaces : FinishOf(i) # FinishOf(j)
    /\ correlation.ret.correlation_coefficient = None
    /\ correlation.ret.avg_position_change # PyFloat(0)

\* The data-point races in input order.
DataPointOrder ==
    SelectSeq([i \in 1..Len(race_results) |-> i], LAMBDA i : i \in DataPointRaces)

RaceNameOf(i) ==
    IF "raceName" \in DOMAIN race_results[i] THEN race_results[i]["raceName"]
    ELSE PyStr(<<"U", "n", "k", "n", "o", "w", "n">>)

\* C14: in every non-absent result the length of scatter_data equals
\* races_analyzed, the points are in input order, and each carries the grid,
\* the finish and the race name of the race it came from.
C14_ScatterMatchesRaces ==
    (correlation # NotCalled /\ correlation.ret # None) =>
        /\ Len(correlation.ret.scatter_data) = correlation.ret.races_analyzed
        /\ Len(correlation.ret.scatter_data) = Len(DataPointOrder)
        /\ \A k \in 1..Len(DataPointOrder) :
               correlation.ret.scatter_data[k]
                   = [grid |-> GridOf(DataPointOrder[k]),
                      finish |-> FinishOf(DataPointOrder[k]),
                      race_name |-> RaceNameOf(DataPointOrder[k])]

\* Scatter data of two differently named races around a race that retired.
C14_Witness ==
    /\ correlation # NotCalled
    /\ correlation.ret # None
    /\ Len(race_results) = 3
    /\ DataPointRaces = {1, 3}
    /\ Len(correlation.ret.scatter_data) = 2
    /\ correlation.ret.scatter_data[1] # correlation.ret.scatter_data[2]

\* The indices of the first nRaces entries.
FormWindow ==
    1..(IF form.n_races < Len(race_results) THEN form.n_races ELSE Len(race_results))

\* The races with a result whose position parses to an integer and whose
\* status is not a DNF.
ClassifiedRaces ==
    {i \in RacesWithResult :
        ParsesToInt(race_results[i], "position") /\ ~IsDnfRace(race_results[i])}

\* C15: whenever formIndicator returns a result, racesAnalyzed is at least 1
\* and at most min(nRaces, len(R)).
C15_RacesAnalyzedWithinWindow ==
    (form # NotCalled /\ form.ret # None) =>
        /\ form.ret.races_analyzed >= 1
        /\ form.ret.races_analyzed <= form.n_races
        /\ form.ret.races_analyzed <= Len(race_results)

\* A window of two races, both analysed, before a third race that would
\* have been analysed as well.
C15_Witness ==
    /\ form # NotCalled
    /\ form.ret # None
    /\ form.n_races = 2
    /\ Len(race_results) = 3
    /\ 3 \in ClassifiedRaces
    /\ form.ret.races_analyzed = 2

\* The direction the 0.3 threshold gives to the slope the result reports.
DirectionOfReported(trend_slope) ==
    IF trend_slope.m > -300 /\ trend_slope.m < 300 THEN "stable"
    ELSE IF trend_slope.m < 0 THEN "improving"
    ELSE "declining"

\* C16 (as claimed): trend_direction is fully determined by the returned,
\* 3-decimal-rounded trend_slope: "stable" when its magnitude is below 0.3,
\* else "improving" when negative and "declining" when positive, for every
\* window size.
C16_DirectionFromReported ==
    (form # NotCalled /\ form.ret # None) =>
        form.ret.trend_direction = DirectionOfReported(form.ret.trend_slope)

\* C16 (amended): when the returned trend_slope is not exactly 0.3 or -0.3,
\* trend_direction is determined by it through the 0.3 threshold; at a
\* returned 0.3 the direction is "stable" or "declining", at -0.3 "stable"
\* or "improving".
C16_DirectionUnlessOnThreshold ==
    (form # NotCalled /\ form.ret # None) =>
        /\ form.ret.trend_slope.m \notin {-300, 300} =>
               form.ret.trend_direction = DirectionOfReported(form.ret.trend_slope)
        /\ form.ret.trend_slope.m = 300 =>
               form.ret.trend_direction \in {"stable", "declining"}
        /\ form.ret.trend_slope.m = -300 =>
               form.ret.trend_direction \in {"stable", "improving"}

\* An improving trend over a window of three classified races.
C16_Witness ==
    /\ form # NotCalled
    /\ form.ret # None
    /\ form.ret.races_analyzed = 3
    /\ form.ret.trend_slope.m < -300
    /\ form.ret.trend_direction = "improving"

\* C17: formIndicator returns absent if and only if no race among the first
\* nRaces entries has a present position that parses to an integer together
\* with a non-DNF status; the empty list and a window of DNF races give absent.
C17_AbsentIffNothingClassified ==
    form # NotCalled =>
        (form.ret = None <=> FormWindow \cap ClassifiedRaces = {})

\* Absent for a window of one race that was a DNF with a numeric position,
\* before a classified race outside the window.
C17_Witness ==
    /\ form # NotCalled
    /\ form.n_races = 1
    /\ Len(race_results) >= 2
    /\ 1 \in DnfRaces
    /\ ParsesToInt(race_results[1], "position")
    /\ 2 \in ClassifiedRaces
    /\ form.ret = None

\* C18 (as claimed): no exception escapes an analytics function for any
\* input, records with a missing, null or malformed status included.
C18_NoExceptionEscapes ==
    dnf_rate # NotCalled => dnf_rate # AttributeError

Returned(ret) == ret # NotCalled /\ ret # AttributeError

RECURSIVE CountSum(_, _)
CountSum(counts, keys) ==
    IF keys = {} THEN 0
    ELSE LET k == CHOOSE c \in keys : TRUE
         IN  counts[k] + CountSum(counts, keys \ {k})

\* C19: in every dnfRate result the counts of the cause buckets (Mechanical,
\* Accident, Other) sum to dnf_count, every bucket present has a count of at
\* least 1, and dnf_count is at most total_races.
C19_BucketsSumToDnfCount ==
    Returned(dnf_rate) =>
        /\ DOMAIN dnf_rate.dnf_causes \subseteq {"Mechanical", "Accident", "Other"}
        /\ CountSum(dnf_rate.dnf_causes, DOMAIN dnf_rate.dnf_causes) = dnf_rate.dnf_count
        /\ \A c \in DOMAIN dnf_rate.dnf_causes : dnf_rate.dnf_causes[c] >= 1
        /\ dnf_rate.dnf_count <= dnf_rate.total_races

\* A result with two DNFs of one bucket and one of another.
C19_Witness ==
    /\ Returned(dnf_rate)
    /\ dnf_rate.dnf_count = 3
    /\ "Other" \in DOMAIN dnf_rate.dnf_causes
    /\ dnf_rate.dnf_causes["Other"] = 2
    /\ Cardinality(DOMAIN dnf_rate.dnf_causes) = 2

\* C20: dnf_percentage is dnf_count * 100 / total_races rounded to one
\* decimal, where total_races is the number of input races; it lies in
\* [0, 100]; a list of finished races gives 0 and 0; the empty list gives a
\* zero percentage, zero counts and an empty mapping.
C20_PercentageOfAllRaces ==
    Returned(dnf_rate) =>
        /\ dnf_rate.total_races = Len(race_results)
        /\ race_results # <<>> =>
               dnf_rate.dnf_percentage
                   = Round(Ratio(dnf_rate.dnf_count * 100, Len(race_results)), 10)
        /\ dnf_rate.dnf_percentage.m >= 0
        /\ dnf_rate.dnf_percentage.m <= 100000
        /\ dnf_rate.dnf_count = Cardinality(DnfRaces)
        /\ DnfRaces = {} =>
               dnf_rate.dnf_count = 0 /\ dnf_rate.dnf_percentage = PyFloat(0)
        /\ race_results = <<>> =>
               /\ dnf_rate.dnf_percentage = PyFloat(0)
               /\ dnf_rate.dnf_count = 0
               /\ dnf_rate.total_races = 0
               /\ DOMAIN dnf_rate.dnf_causes = {}

\* One DNF in three races, one of which has no result: 33.3 percent.
C20_Witness ==
    /\ Returned(dnf_rate)
    /\ Len(race_results) = 3
    /\ Cardinality(RacesWithResult) = 2
    /\ dnf_rate.dnf_count = 1
    /\ dnf_rate.dnf_percentage = PyFloat(33300)

MechanicalCauses ==
    {Engine, Gearbox, Transmission, Clutch, Hydraulics, Electrical, Mechanical,
     Brakes, Suspension, FuelPressure, Overheating}

AccidentCauses == {Accident, Collision, SpunOff}

\* isDnf as the specification words it: one of the fifteen causes, or a text
\* that begins with '+'.
MatchesIsDnf(chars) ==
    \/ chars \in MechanicalCauses \cup AccidentCauses \cup {Retired}
    \/ chars # <<>> /\ Head(chars) = "+"

BucketOf(chars) ==
    IF chars \in MechanicalCauses THEN "Mechanical"
    ELSE IF chars \in AccidentCauses THEN "Accident"
    ELSE "Other"

\* The status text of the first result of race i ("Finished" without one).
StatusOf(i) ==
    IF "status" \in DOMAIN FirstResult(race_results[i])
    THEN FirstResult(race_results[i])["status"].s
    ELSE Finished.s

\* The races with a result whose status is a DNF of the bucket.
BucketRaces(bucket) ==
    {i \in RacesWithResult :
        MatchesIsDnf(StatusOf(i)) /\ BucketOf(StatusOf(i)) = bucket}

\* C21: dnfRate counts every status that satisfies isDnf in exactly one
\* bucket (Mechanical for the eleven mechanical causes, Accident for
\* Accident, Collision and Spun off, Other for Retired and '+' markers) and
\* never counts a status that does not satisfy isDnf.
C21_EveryDnfInItsBucket ==
    Returned(dnf_rate) =>
        /\ \A bucket \in {"Mechanical", "Accident", "Other"} :
               Get(dnf_rate.dnf_causes, bucket, 0) = Cardinality(BucketRaces(bucket))
        /\ dnf_rate.dnf_count
               = Cardinality({i \in RacesWithResult : MatchesIsDnf(StatusOf(i))})

\* A spin and a lapped finish counted in two buckets.
C21_Witness ==
    /\ Returned(dnf_rate)
    /\ Len(race_results) = 2
    /\ StatusOf(1) = SpunOff
    /\ StatusOf(2) = LapDown.s
    /\ dnf_rate.dnf_causes = [bucket \in {"Accident", "Other"} |-> 1]

\* C22: isDnf(status) is true if and only if status is exactly one of the
\* fifteen causes or begins with '+'; it is false for "Finished", for the
\* empty text and for any other text.
C22_IsDnfIffCauseOrPlus ==
    status_check # NotCalled =>
        /\ status_check.ret <=> MatchesIsDnf(status_check.status)
        /\ status_check.status \in {Finished.s, <<>>} => ~status_check.ret

\* A cause followed by one more character that is not taken for a DNF.
C22_Witness ==
    /\ status_check # NotCalled
    /\ status_check.status = FuelPressure \o <<"+">>
    /\ ~status_check.ret

ResultOrder ==
    SelectSeq([i \in 1..Len(race_results) |-> i], LAMBDA i : i \in RacesWithResult)

C24_NoNotice == notices = <<>>

\* The classified races of the window, in input order, and their positions.
KeptOrder ==
    SelectSeq([i \in 1..Len(race_results) |-> i],
              LAMBDA i : i \in FormWindow \cap ClassifiedRaces)

KeptPositions == [k \in 1..Len(KeptOrder) |-> FinishOf(KeptOrder[k])]

Reverse(seq) == [i \in 1..Len(seq) |-> seq[Len(seq) + 1 - i]]

\* The result for the window taken in the opposite order.
ReversedForm ==
    calculate_analytics_form_indicator(Reverse(Slice(race_results, form.n_races)),
                                       form.n_races)

\* C25: when at least two races are kept in the window and the kept
\* positions are strictly decreasing with index, the slope is < 0 and the
\* direction "improving"; when they are strictly increasing the slope is > 0
\* and the direction "declining"; reversing the window negates the slope.
C25_SlopeFollowsOrder ==
    form # NotCalled =>
        /\ (/\ Len(KeptPositions) >= 2
            /\ \A k \in 1..(Len(KeptPositions) - 1) :
                   KeptPositions[k] > KeptPositions[k + 1])
               => /\ form.ret # None
                  /\ form.ret.trend_slope.m < 0
                  /\ form.ret.trend_direction = "improving"
        /\ (/\ Len(KeptPositions) >= 2
            /\ \A k \in 1..(Len(KeptPositions) - 1) :
                   KeptPositions[k] < KeptPositions[k + 1])
               => /\ form.ret # None
                  /\ form.ret.trend_slope.m > 0
                  /\ form.ret.trend_direction = "declining"
        /\ form.ret # None =>
               /\ ReversedForm # None
               /\ ReversedForm.trend_slope.m = 0 - form.ret.trend_slope.m

\* The window of five races finished 6th, 5th, 4th, 3rd and 2nd.
C25_Witness ==
    /\ form # NotCalled
    /\ form.ret # None
    /\ KeptPositions = <<6, 5, 4, 3, 2>>
    /\ form.ret.trend_slope = PyFloat(-1000)
    /\ form.ret.trend_direction = "improving"

RECURSIVE SeqSum(_)
SeqSum(seq) == IF seq = <<>> THEN 0 ELSE Head(seq) + SeqSum(Tail(seq))

C27_ExponentialBackoff ==
    fetch # NotCalled =>
        /\ \A k \in 1..(Len(fetch.sleeps) - 1) : fetch.sleeps[k + 1] > fetch.sleeps[k]
        /\ \A k \in 2..(Len(fetch.sleeps) - 1) :
               fetch.sleeps[k] * fetch.sleeps[k]
                   = fetch.sleeps[k - 1] * fetch.sleeps[k + 1]

Done == fetch # NotCalled /\ fetch.pc = "done"

OnlyTimeoutsAndServerErrors ==
    \A k \in 1..Len(fetch.outcomes) : fetch.outcomes[k] \in {"timeout", "5xx"}

AtMostMaxRetries ==
    fetch # NotCalled =>
        /\ fetch.requests <= fetch.max_retries
        /\ Len(fetch.sleeps) <= fetch.requests
        /\ (Done /\ OnlyTimeoutsAndServerErrors) =>
               /\ fetch.requests = fetch.max_retries
               /\ fetch.ret = None
        /\ (Done /\ fetch.requests > 0) => Len(fetch.sleeps) = fetch.requests - 1
        /\ fetch.max_retries = 0 =>
               Done /\ fetch.ret = None /\ fetch.requests = 0

\* C28: fetch_with_retry always terminates and issues at most max_retries
\* requests: under any sequence of timeouts and 5xx responses it makes
\* exactly max_retries attempts and then returns None, it never sleeps after
\* the last attempt, and with max_retries = 0 it returns None without a request.
C28_TerminatesWithinMaxRetries ==
    /\ []AtMostMaxRetries
    /\ (fetch # NotCalled) ~> Done

\* Four attempts that all timed out or met a server error, three sleeps.
C28_Witness ==
    /\ Done
    /\ fetch.max_retries = 4
    /\ fetch.requests = 4
    /\ OnlyTimeoutsAndServerErrors
    /\ Len(fetch.sleeps) = 3
    /\ fetch.ret = None

\* C29: no request follows a terminal outcome: a successful response returns
\* its JSON at once, and a 4xx response, a network error that is no timeout
\* or an undecodable body returns None on that attempt; only timeouts and
\* 5xx responses lead to a retry.
C29_NoRequestAfterTerminalOutcome ==
    fetch # NotCalled =>
        /\ fetch.requests = Len(fetch.outcomes)
        /\ \A k \in 1..(Len(fetch.outcomes) - 1) :
               fetch.outcomes[k] \in {"timeout", "5xx"}
        /\ fetch.outcomes # <<>> =>
               LET last == fetch.outcomes[Len(fetch.outcomes)]
               IN  /\ last = "ok" => Done /\ fetch.ret = Json
                   /\ last \in {"4xx", "network error", "bad json"} =>
                          Done /\ fetch.ret = None
                   /\ ~Done => last \in {"timeout", "5xx"}

\* A second attempt that met a 4xx response, with attempts left.
C29_Witness ==
    /\ Done
    /\ fetch.max_retries = 4
    /\ fetch.outcomes = <<"timeout", "4xx">>
    /\ fetch.ret = None

\* The races with grid and position both present whose status is a DNF.
DnfRacesWithBoth ==
    {i \in RacesWithResult \ MissingDataRaces : IsDnfRace(race_results[i])}

\* C30: qualifyingRaceCorrelation partitions the races that have a result
\* entry: in every result that is not absent, races_analyzed plus
\* missing_data_count plus the number of DNF races with grid and position
\* both present is the number of input races with a non-empty result list.
C30_RacesWithResultPartitioned ==
    (correlation # NotCalled /\ correlation.ret # None) =>
        correlation.ret.races_analyzed + correlation.ret.missing_data_count
                + Cardinality(DnfRacesWithBoth)
            = Cardinality(RacesWithResult)

\* Three races with a result: one analysed, one DNF with both fields, and one
\* whose position is no integer.
C30_Witness ==
    /\ correlation # NotCalled
    /\ correlation.ret # None
    /\ Cardinality(RacesWithResult) = 3
    /\ correlation.ret.races_analyzed = 1
    /\ Cardinality(DnfRacesWithBoth) = 1
    /\ Cardinality(UnparsedRaces) = 1
    /\ correlation.ret.missing_data_count = 1

====
